---- MODULE Spec2Model ----
(***************************************************************************)
(* Model of the secure command execution subsystem of Fredon Menu          *)
(* (src/src/menu/launcher.py): SecurityValidator.validate_command and      *)
(* CommandLauncher.execute_command with its four execution strategies.     *)
(*                                                                         *)
(* A command string is a sequence of one-character strings.  Optional      *)
(* Python values are sequences of length at most one: None is << >> and a  *)
(* value v is << v >>.                                                     *)
(***************************************************************************)
EXTENDS Integers, Sequences, FiniteSets, TLC

(***************************************************************************)
(* Bounds of the model.                                                    *)
(***************************************************************************)
\* longest run of surrounding characters put around a core command (validator inputs)
MaxAffix == 1
\* longest run of surrounding whitespace put around a core command (launcher inputs)
MaxPad == 1
\* the clock advances in steps of Quantum seconds until it has reached MaxTime
Quantum == 15
MaxTime == 30
\* number of descendants a child process may have alive at once
MaxDesc == 1
\* number of calls of execute_command in progress at once on one launcher
MaxCalls == 2
\* the largest number of enabled buttons of one menu level (three pages of ten)
MaxButtons == 21
\* the largest max_size_mb an IconCacheManager is constructed with
MaxCacheMb == 1
\* the time at which the icon operations (writes and loads) of one run stop
MaxIconTime == 6

(***************************************************************************)
(* Python values.                                                          *)
(***************************************************************************)
None == << >>
Some(v) == << v >>

(***************************************************************************)
(* str operations used by the validator and the launcher.                  *)
(***************************************************************************)
\* characters str.strip(), str.split() and the regex class \s treat as whitespace
StrWhitespace == {" ", "\t", "\n", "\r", "\f"}
\* shlex.whitespace in POSIX mode
ShlexWhitespace == {" ", "\t", "\r", "\n"}
Digits == {"0", "1", "2", "3", "4", "5", "6", "7", "8", "9"}

\* the grave accent character (U+0060), written as a token
Backtick == "grave"

\* re.IGNORECASE folding of the upper-case letters of the model's alphabet
Lower(c) ==
    CASE c = "S" -> "s"
      [] c = "U" -> "u"
      [] c = "R" -> "r"
      [] c = "M" -> "m"
      [] OTHER -> c

RECURSIVE lstrip(_)
lstrip(s) ==
    IF s = << >> THEN << >>
    ELSE IF Head(s) \in StrWhitespace THEN lstrip(Tail(s))
    ELSE s

RECURSIVE rstrip(_)
rstrip(s) ==
    IF s = << >> THEN << >>
    ELSE IF s[Len(s)] \in StrWhitespace THEN rstrip(SubSeq(s, 1, Len(s) - 1))
    ELSE s

\* str.strip()
strip(s) == rstrip(lstrip(s))

\* c in s
Contains(s, c) == \E i \in 1..Len(s) : s[i] = c

\* s.startswith(p)
startswith(s, p) == Len(p) <= Len(s) /\ SubSeq(s, 1, Len(p)) = p

\* s.endswith(p)
endswith(s, p) == Len(p) <= Len(s) /\ SubSeq(s, Len(s) - Len(p) + 1, Len(s)) = p

\* str.split() with no separator: the maximal runs of non-whitespace characters
RECURSIVE SplitFrom(_, _, _)
SplitFrom(s, cur, acc) ==
    IF s = << >> THEN (IF cur = << >> THEN acc ELSE Append(acc, cur))
    ELSE IF Head(s) \in StrWhitespace
         THEN SplitFrom(Tail(s), << >>, IF cur = << >> THEN acc ELSE Append(acc, cur))
         ELSE SplitFrom(Tail(s), Append(cur, Head(s)), acc)

split(s) == SplitFrom(s, << >>, << >>)

\* os.path.basename(p): what follows the last '/'
RECURSIVE basename(_)
basename(p) ==
    IF ~Contains(p, "/") THEN p
    ELSE basename(Tail(p))

(***************************************************************************)
(* re.search for the shapes of pattern BLOCKED_PATTERNS holds: a literal   *)
(* head, optionally followed by \s+ and then a literal tail or \d.         *)
(***************************************************************************)
\* the literal lit occurs at index i of s, ignoring case
MatchLit(s, i, lit) ==
    /\ i + Len(lit) - 1 <= Len(s)
    /\ \A k \in 1..Len(lit) : Lower(s[i + k - 1]) = lit[k]

\* index of the first non-whitespace character of s at or after i (Len(s)+1 if none)
RECURSIVE SkipWs(_, _)
SkipWs(s, i) ==
    IF i > Len(s) THEN i
    ELSE IF s[i] \in StrWhitespace THEN SkipWs(s, i + 1)
    ELSE i

\* pat matches s starting at index i
MatchAt(pat, s, i) ==
    /\ MatchLit(s, i, pat.head)
    /\ pat.gap =>
         LET j == i + Len(pat.head)
             k == SkipWs(s, j)
         IN  /\ k > j
             /\ (pat.digit => k <= Len(s) /\ s[k] \in Digits)
             /\ (pat.tail # << >> => MatchLit(s, k, pat.tail))

re_search(pat, s) == \E i \in 1..Len(s) : MatchAt(pat, s, i)

Pat(name, head, gap, tail, digit) ==
    [name |-> name, head |-> head, gap |-> gap, tail |-> tail, digit |-> digit]

(***************************************************************************)
(* Policy tables of SecurityValidator.                                     *)
(***************************************************************************)
BLOCKED_CHARACTERS_NoQuote == << ";", "&", "|", Backtick, "$", "(", ")", "<", ">", "\"" >>

BLOCKED_CHARACTERS == << ";", "&", "|", Backtick, "$", "(", ")", "<", ">", "\"", "'" >>

BLOCKED_PATTERNS ==
    << Pat("rm\\s+-rf",   << "r", "m" >>, TRUE, << "-", "r", "f" >>, FALSE),
       Pat("sudo\\s+",    << "s", "u", "d", "o" >>, TRUE, << >>, FALSE),
       Pat("su\\s+",      << "s", "u" >>, TRUE, << >>, FALSE),
       Pat("passwd",      << "p", "a", "s", "s", "w", "d" >>, FALSE, << >>, FALSE),
       Pat("chmod\\s+\\d", << "c", "h", "m", "o", "d" >>, TRUE, << >>, TRUE),
       Pat("chown\\s+",   << "c", "h", "o", "w", "n" >>, TRUE, << >>, FALSE),
       Pat("mkfs",        << "m", "k", "f", "s" >>, FALSE, << >>, FALSE),
       Pat("dd\\s+if=",   << "d", "d" >>, TRUE, << "i", "f", "=" >>, FALSE),
       Pat("fdisk",       << "f", "d", "i", "s", "k" >>, FALSE, << >>, FALSE),
       Pat("mount",       << "m", "o", "u", "n", "t" >>, FALSE, << >>, FALSE),
       Pat("umount",      << "u", "m", "o", "u", "n", "t" >>, FALSE, << >>, FALSE) >>

ALLOWED_PREFIXES_NoBin ==
    << << "/", "u", "s", "r", "/", "b", "i", "n", "/" >>,
       << "/", "u", "s", "r", "/", "l", "o", "c", "a", "l", "/", "b", "i", "n", "/" >>,
       << "/", "s", "n", "a", "p", "/", "b", "i", "n", "/" >>,
       << "n", "p", "m", " " >>,
       << "p", "y", "t", "h", "o", "n" >>,
       << "p", "y", "t", "h", "o", "n", "3" >>,
       << "n", "o", "d", "e" >>,
       << "f", "l", "a", "t", "p", "a", "k", " " >>,
       << "x", "d", "g", "-", "o", "p", "e", "n" >> >>

ALLOWED_PREFIXES ==
    << << "/", "u", "s", "r", "/", "b", "i", "n", "/" >>,
       << "/", "u", "s", "r", "/", "l", "o", "c", "a", "l", "/", "b", "i", "n", "/" >>,
       << "/", "b", "i", "n", "/" >>,
       << "/", "s", "n", "a", "p", "/", "b", "i", "n", "/" >>,
       << "n", "p", "m", " " >>,
       << "p", "y", "t", "h", "o", "n" >>,
       << "p", "y", "t", "h", "o", "n", "3" >>,
       << "n", "o", "d", "e" >>,
       << "f", "l", "a", "t", "p", "a", "k", " " >>,
       << "x", "d", "g", "-", "o", "p", "e", "n" >> >>

BLOCKED_COMMANDS_NoRm ==
    << << "s", "u", "d", "o" >>, << "s", "u" >>,
       << "p", "a", "s", "s", "w", "d" >>, << "c", "h", "m", "o", "d" >>,
       << "c", "h", "o", "w", "n" >>, << "d", "d" >>, << "m", "k", "f", "s" >>,
       << "f", "d", "i", "s", "k" >>, << "m", "o", "u", "n", "t" >>,
       << "u", "m", "o", "u", "n", "t" >> >>

BLOCKED_COMMANDS ==
    << << "r", "m" >>, << "s", "u", "d", "o" >>, << "s", "u" >>,
       << "p", "a", "s", "s", "w", "d" >>, << "c", "h", "m", "o", "d" >>,
       << "c", "h", "o", "w", "n" >>, << "d", "d" >>, << "m", "k", "f", "s" >>,
       << "f", "d", "i", "s", "k" >>, << "m", "o", "u", "n", "t" >>,
       << "u", "m", "o", "u", "n", "t" >> >>

\* CommandType (models.py) and a value that is no member of it
SHELL == "shell"
NPM == "npm"
PYTHON == "python"
APP == "app"
CommandType == {SHELL, NPM, PYTHON, APP}
OtherType == "other"

(***************************************************************************)
(* The environment the validator and the launcher consult: the files that  *)
(* exist, those that are executable, the bare names that resolve on PATH,  *)
(* and the package.json of the resolved working directory.                 *)
(***************************************************************************)
ScriptPy == << "a", ".", "p", "y" >>
EntryDesktop == << "a", ".", "d", "e", "s", "k", "t", "o", "p" >>
OtherDesktop == << "/", "b", ".", "d", "e", "s", "k", "t", "o", "p" >>
BareName == << "l", "s" >>
CandidateFiles == {ScriptPy, EntryDesktop}
CandidateNames == {BareName}

BinLs == << "/", "b", "i", "n", "/", "l", "s" >>
SpacedPy == << "m", "y", " ", "a", ".", "p", "y" >>
BinRm == << "/", "b", "i", "n", "/", "r", "m" >>

\* the candidate files present or not and the bare name on PATH or not, two more
\* in which /bin/ls exists, once without and once with the execute bit, one with
\* a script whose name has a space, and one with /bin/rm installed
FileSystems ==
    [files : SUBSET CandidateFiles, exec : {{}}, onpath : SUBSET CandidateNames]
      \cup { [files |-> {BinLs}, exec |-> {}, onpath |-> {}],
             [files |-> {BinLs}, exec |-> {BinLs}, onpath |-> {}],
             [files |-> {SpacedPy}, exec |-> {}, onpath |-> {}],
             [files |-> {BinRm}, exec |-> {BinRm}, onpath |-> {}] }

\* package.json: absent, unparsable, or parsed with the given keys under "scripts"
Manifests ==
    { [state |-> "absent", scripts |-> {}],
      [state |-> "invalid", scripts |-> {}],
      [state |-> "parsed", scripts |-> {}],
      [state |-> "parsed", scripts |-> {BareName}] }

VARIABLES
    fs,            \* the file system: [files, exec, onpath]
    manifest,      \* package.json of the resolved working directory
    now,           \* time.time(), in seconds
    pc,            \* "idle", "validated", "waiting" (in subprocess.run) or "done"
    command,       \* argument of the call
    command_type,  \* argument of the call
    working_dir,   \* argument of the call (optional)
    env,           \* argument of the call (optional)
    start_time,    \* local of execute_command
    verdict,       \* (is_valid, error_message) of the call's validation
    spawned,       \* the OS spawn calls made by the call, in order
    faults,        \* the exceptions raised inside the call, in order
    child,         \* the spawned child: [state, code, out]
    desc,          \* live descendants of the child (same session)
    pipes,         \* live descendants holding the child's stdout/stderr pipes
    t_spawn,       \* time at which subprocess.run started
    result,        \* the ExecutionResult returned to the caller (optional)
    raised,        \* TRUE when an exception reached the caller
    calls,         \* concurrent calls on one launcher: [pc, command, proc, result]
    procs,         \* the children spawned by the concurrent calls, in spawn order
    config_file,   \* content of ConfigManager.config_path
    backup_file,   \* content of the .json.backup next to it
    fallback_file, \* content of ConfigManager.fallback_path
    _config,       \* ConfigManager._config (optional)
    notified,      \* TRUE when the last operation ran the change callbacks
    cfg_ret,       \* the last ConfigManager operation: [op, ok, config, raised, prev]
    window,        \* the MenuWindow: its paging fields and what it displays
    cache,         \* the IconCacheManager: [max_size_bytes, memory_cache, access_times]
    icon_env       \* the icon files on disk and time.time(): [files, time]

vars == << fs, manifest, now, pc, command, command_type, working_dir, env,
           start_time, verdict, spawned, faults, child, desc, pipes, t_spawn,
           result, raised, calls, procs, config_file, backup_file,
           fallback_file, _config, notified, cfg_ret, window, cache, icon_env >>

\* the state of the concurrent calls, and the state of the ConfigManager
conc_vars == << calls, procs >>
cfg_vars == << config_file, backup_file, fallback_file, _config, notified, cfg_ret >>
\* the state of the single call of execute_command
call_vars == << fs, manifest, now, pc, command, command_type, working_dir, env,
                start_time, verdict, spawned, faults, child, desc, pipes, t_spawn,
                result, raised >>

(***************************************************************************)
(* SecurityValidator                                                       *)
(***************************************************************************)
Verdict(ok, reason) == [is_valid |-> ok, error |-> reason]
Reason(msg, arg) == [msg |-> msg, arg |-> arg]
Reject(msg, arg) == Verdict(FALSE, Some(Reason(msg, arg)))
Admit == Verdict(TRUE, None)

exists_Always(f, path) == TRUE

\* os.path.exists
exists(f, path) == path \in f.files
access_x_Always(f, path) == TRUE

\* os.access(path, os.X_OK)
access_x(f, path) == path \in f.exec
which_Always(f, name) == TRUE

\* shutil.which(name) is not None
which(f, name) == name \in f.onpath

_validate_shell_command(c) ==
    IF \E i \in 1..Len(ALLOWED_PREFIXES) : startswith(c, ALLOWED_PREFIXES[i])
    THEN Admit
    ELSE LET command_parts == split(c) IN
         IF /\ command_parts # << >>
            /\ ~Contains(command_parts[1], "/")
            /\ Len(command_parts[1]) > 0
         THEN Admit
         ELSE Reject("Shell command does not start with allowed prefix", << >>)

_validate_npm_command(c) ==
    IF strip(c) = << >> THEN Reject("Empty NPM script name", << >>)
    ELSE IF Contains(strip(c), " ")
         THEN Reject("NPM script names should not contain spaces", << >>)
    ELSE Admit

_validate_python_command(c, f) ==
    IF ~exists(f, c) THEN Reject("Python script not found", c)
    ELSE IF ~endswith(c, << ".", "p", "y" >>)
         THEN Reject("Python scripts must end with .py", << >>)
    ELSE Admit

_validate_app_command(c, f) ==
    IF endswith(c, << ".", "d", "e", "s", "k", "t", "o", "p" >>)
    THEN IF ~exists(f, c) THEN Reject("Desktop file not found", c) ELSE Admit
    ELSE LET command_parts == split(c) IN
         IF command_parts = << >> THEN Admit
         ELSE LET base_command == command_parts[1] IN
              IF Contains(base_command, "/")
              THEN IF ~exists(f, base_command)
                   THEN Reject("Application not found", base_command)
                   ELSE IF ~access_x(f, base_command)
                        THEN Reject("Application not executable", base_command)
                   ELSE Admit
              ELSE IF ~which(f, base_command)
                   THEN Reject("Command not found in PATH", base_command)
              ELSE Admit

\* indexes of the entries of a policy table that the command trips
BlockedCharHits(c) ==
    {i \in 1..Len(BLOCKED_CHARACTERS) : Contains(c, BLOCKED_CHARACTERS[i])}
BlockedPatternHits(c) ==
    {i \in 1..Len(BLOCKED_PATTERNS) : re_search(BLOCKED_PATTERNS[i], c)}
Least(S) == CHOOSE i \in S : \A j \in S : i <= j
InTable(tbl, x) == \E i \in 1..Len(tbl) : tbl[i] = x

validate_command_NameFirst(cmd, ctype, f) ==
    IF cmd = << >> \/ strip(cmd) = << >>
    THEN Reject("Empty command not allowed", << >>)
    ELSE LET c == strip(cmd)
             command_parts == split(c)
         IN
         IF BlockedCharHits(c) # {}
         THEN Reject("Blocked character", << BLOCKED_CHARACTERS[Least(BlockedCharHits(c))] >>)
         ELSE IF command_parts # << >> /\ InTable(BLOCKED_COMMANDS, command_parts[1])
         THEN Reject("Blocked command", command_parts[1])
         ELSE IF BlockedPatternHits(c) # {}
         THEN Reject("Blocked pattern", << BLOCKED_PATTERNS[Least(BlockedPatternHits(c))].name >>)
         ELSE IF ctype = SHELL THEN _validate_shell_command(c)
         ELSE IF ctype = NPM THEN _validate_npm_command(c)
         ELSE IF ctype = PYTHON THEN _validate_python_command(c, f)
         ELSE IF ctype = APP THEN _validate_app_command(c, f)
         ELSE Reject("Unknown command type", << ctype >>)

validate_command(cmd, ctype, f) ==
    IF cmd = << >> \/ strip(cmd) = << >>
    THEN Reject("Empty command not allowed", << >>)
    ELSE LET c == strip(cmd)
             command_parts == split(c)
         IN
         IF BlockedCharHits(c) # {}
         THEN Reject("Blocked character", << BLOCKED_CHARACTERS[Least(BlockedCharHits(c))] >>)
         ELSE IF BlockedPatternHits(c) # {}
         THEN Reject("Blocked pattern", << BLOCKED_PATTERNS[Least(BlockedPatternHits(c))].name >>)
         ELSE IF command_parts # << >> /\ InTable(BLOCKED_COMMANDS, command_parts[1])
         THEN Reject("Blocked command", command_parts[1])
         ELSE IF ctype = SHELL THEN _validate_shell_command(c)
         ELSE IF ctype = NPM THEN _validate_npm_command(c)
         ELSE IF ctype = PYTHON THEN _validate_python_command(c, f)
         ELSE IF ctype = APP THEN _validate_app_command(c, f)
         ELSE Reject("Unknown command type", << ctype >>)

(***************************************************************************)
(* Inputs: a core command with up to n characters of an alphabet before    *)
(* and after it.                                                           *)
(***************************************************************************)
RECURSIVE SeqsUpTo(_, _)
SeqsUpTo(A, n) ==
    IF n = 0 THEN {<< >>}
    ELSE LET S == SeqsUpTo(A, n - 1) IN
         S \cup {Append(s, a) : s \in S, a \in A}

Around(cores, A, n) ==
    {pre \o core \o post : pre \in SeqsUpTo(A, n), core \in cores, post \in SeqsUpTo(A, n)}

BlockedCharSet == {";", "&", "|", Backtick, "$", "(", ")", "<", ">", "\"", "'"}
BlockedNameSet ==
    { << "r", "m" >>, << "s", "u", "d", "o" >>, << "s", "u" >>,
      << "p", "a", "s", "s", "w", "d" >>, << "c", "h", "m", "o", "d" >>,
      << "c", "h", "o", "w", "n" >>, << "d", "d" >>, << "m", "k", "f", "s" >>,
      << "f", "d", "i", "s", "k" >>, << "m", "o", "u", "n", "t" >>,
      << "u", "m", "o", "u", "n", "t" >> }

\* cores shared by the validator's and the launcher's inputs
CommonCores ==
    { << >>,
      BareName,
      << "l", "s", " ", "-", "l" >>,
      << "/", "b", "i", "n", "/", "l", "s" >>,
      << ".", "/", "l", "s" >>,
      << "l", "s", " ", "\\" >>,
      << "r", "m" >>,
      << "l", "s", ";" >>,
      BinRm,
      ScriptPy,
      SpacedPy,
      EntryDesktop,
      OtherDesktop }

ValidatorCores ==
    CommonCores
      \cup {<< ch >> : ch \in BlockedCharSet}
      \cup BlockedNameSet
      \cup {nm \o << " ", "-", "r", "f" >> : nm \in BlockedNameSet}
      \cup { << "S", "U" >>, << "S", "U", " ", "l", "s" >>,
             << "c", "h", "m", "o", "d", " ", "7" >>,
             << "d", "d", " ", "i", "f", "=" >>,
             << "r", "m", "\t", "-", "r", "f" >>,
             << "\t", "r", "m", "\t", "l", "s" >>,
             << "l", "s", "\t", ";" >>,
             << "l", "s", "\t", "r", "m" >>,
             << "l", "s", "\t", "-", "l" >>,
             << "r", "m", " ", "-", "r", "f", " ", ";" >>,
             << "s", "u", " ", ";" >>,
             << "p", "y", "t", "h", "o", "n", "3" >>,
             << "/", "u", "s", "r", "/", "b", "i", "n", "/", "l", "s" >>,
             << "/", "o", "p", "t", "/", "l", "s" >>,
             << "l", "s", " ", "/", "b", "i", "n", "/", "l", "s" >>,
             << "l", "s", " ", "a", ".", "d", "e", "s", "k", "t", "o", "p" >> }

AffixChars == {" ", "x"}
PadChars == {" "}

ValidatorCommands == Around(ValidatorCores, AffixChars, MaxAffix)
LauncherCommands == Around(CommonCores, PadChars, MaxPad)
TypeInputs == CommandType \cup {OtherType}

(***************************************************************************)
(* Initial state: no call made yet, in some environment.                   *)
(***************************************************************************)
NoChild == [state |-> "none", code |-> None, out |-> "none"]

\* a call of the concurrent launcher that has not been made yet
IdleCall == [pc |-> "idle", command |-> << >>, proc |-> 0, result |-> None]
\* a path at which no file exists
AbsentFile == [kind |-> "absent", data |-> None]
\* no ConfigManager operation has been called yet
NoOp == [op |-> "none", ok |-> TRUE, config |-> None, raised |-> FALSE, prev |-> "none"]

(***************************************************************************)
(* MenuWindow (aur-submission/fredon-menu-git/src/menu/window.py).  Of the *)
(* MenuConfig the window keeps what decides the length of its item lists:  *)
(* the number of enabled buttons outside categories (main), the enabled    *)
(* categories, and the number of enabled buttons of category "c1"          *)
(* (in_category).  An item list is written as the positions 1..n of its    *)
(* sorted items.  Of the display the model keeps the buttons of the page   *)
(* (page_items), the page label and the sensitivity of the two pagination  *)
(* buttons; a button that is not sensitive, or not shown, is not clicked.  *)
(***************************************************************************)
\* window.py 23-36: the fields of a window just constructed, nothing displayed yet
MenuWindow(config) ==
    [config |-> config, current_state |-> "main", current_category_id |-> None,
     current_page |-> 0, items_per_page |-> 10, page_items |-> << >>,
     page_label |-> None, prev_sensitive |-> FALSE, next_sensitive |-> FALSE]

\* window.py 292-295 over 330-358: the items of the current state
MenuItems(w) ==
    IF w.current_state = "main"
    THEN [i \in 1..(w.config.main + Cardinality(w.config.categories)) |-> i]
    ELSE IF w.current_category_id = None THEN << >>
         ELSE IF w.current_category_id = Some("c1")
              THEN [i \in 1..w.config.in_category |-> i]
              ELSE << >>

\* window.py 285-315 with 365-401: the page is cut out of the items at
\* current_page, which is read and never changed
_update_display(w) ==
    LET items == MenuItems(w)
        total_items == Len(items)
        total_pages == (total_items + w.items_per_page - 1) \div w.items_per_page
        start_idx == w.current_page * w.items_per_page
        end_idx == IF start_idx + w.items_per_page < total_items
                   THEN start_idx + w.items_per_page ELSE total_items
    IN  IF total_pages > 1
        THEN [w EXCEPT !.page_items = SubSeq(items, start_idx + 1, end_idx),
                       !.page_label = Some(<< w.current_page + 1, total_pages >>),
                       !.prev_sensitive = w.current_page > 0,
                       !.next_sensitive = w.current_page < total_pages - 1]
        ELSE [w EXCEPT !.page_items = items,
                       !.page_label = None,
                       !.prev_sensitive = FALSE,
                       !.next_sensitive = FALSE]

\* window.py 271-276
show_main_menu(w) ==
    _update_display([w EXCEPT !.current_state = "main",
                              !.current_category_id = None,
                              !.current_page = 0])

\* window.py 278-283
show_category_menu(w, category_id) ==
    _update_display([w EXCEPT !.current_state = "category",
                              !.current_category_id = Some(category_id),
                              !.current_page = 0])

\* window.py 421-425
_on_prev_page(w) ==
    IF w.current_page > 0
    THEN _update_display([w EXCEPT !.current_page = @ - 1])
    ELSE w

\* window.py 427-430: no test of the page count
_on_next_page(w) ==
    _update_display([w EXCEPT !.current_page = @ + 1])

\* window.py 432-462: Escape only hides the window
_on_key_press(w, keyname) ==
    CASE keyname \in {"Left", "KP_Left"} ->
             IF w.current_page > 0
             THEN _update_display([w EXCEPT !.current_page = @ - 1])
             ELSE w
      [] keyname \in {"Right", "KP_Right"} ->
             LET items == MenuItems(w)
                 total_pages == (Len(items) + w.items_per_page - 1) \div w.items_per_page
             IN  IF w.current_page < total_pages - 1
                 THEN _update_display([w EXCEPT !.current_page = @ + 1])
                 ELSE w
      [] keyname = "BackSpace" ->
             IF w.current_state = "category" THEN show_main_menu(w) ELSE w
      [] OTHER -> w

\* app.py 89-98, the window existing: the new configuration is stored and the
\* display refreshed, the page left as it was
_on_config_changed(w, config) ==
    _update_display([w EXCEPT !.config = config])

(***************************************************************************)
(* IconCacheManager (src/utils/cache.py).  A cache key is the pair of the  *)
(* icon path and the size asked for; of an IconCache the model keeps the   *)
(* length of its data and last_modified.  An icon file is absent or holds  *)
(* a number of bytes, none when it cannot be decoded; the PNG data made of *)
(* it has that number of bytes at width 64 and twice as many at width 128. *)
(***************************************************************************)
\* cache.py 25-45, over a cache directory without index
IconCacheManager(max_size_mb) ==
    [max_size_bytes |-> max_size_mb * 1024 * 1024,
     memory_cache |-> << >>, access_times |-> << >>, removed_count |-> 0]

\* a variant that evicts nothing
_enforce_cache_size_limit_KeepAll(c) ==
    c

\* cache.py 103-129: above the limit, the entries go in the order of their
\* access times, oldest first, until the total is at most 0.8 of the limit
_enforce_cache_size_limit(c) ==
    LET RECURSIVE Sum(_, _)
        Sum(mc, keys) ==
            IF keys = {} THEN 0
            ELSE LET k == CHOOSE x \in keys : TRUE
                 IN  mc[k].data_len + Sum(mc, keys \ {k})
        Without(f, key) == [k \in DOMAIN f \ {key} |-> f[k]]
        RECURSIVE Evict(_, _, _)
        Evict(cur, total_size, todo) ==
            IF todo = {} \/ 5 * total_size <= 4 * cur.max_size_bytes
            THEN cur
            ELSE LET key == CHOOSE x \in todo :
                                \A y \in todo : c.access_times[x] <= c.access_times[y]
                 IN  IF key \in DOMAIN cur.memory_cache
                     THEN Evict([cur EXCEPT !.memory_cache = Without(@, key),
                                            !.access_times = Without(@, key),
                                            !.removed_count = @ + 1],
                                total_size - cur.memory_cache[key].data_len,
                                todo \ {key})
                     ELSE Evict(cur, total_size, todo \ {key})
        total == Sum(c.memory_cache, DOMAIN c.memory_cache)
    IN  IF total <= c.max_size_bytes
        THEN c
        ELSE Evict([c EXCEPT !.removed_count = 0], total, DOMAIN c.access_times)

\* cache.py 131-199: the manager after load_icon(icon_path, size) over the
\* files e.files at time e.time; a fallback icon is returned and not kept
load_icon(c, e, icon_path, size) ==
    IF icon_path = "" \/ ~e.files[icon_path].exists
    THEN c
    ELSE LET cache_key == << icon_path, size >>
             file_mtime == e.files[icon_path].mtime
             Without(f, key) == [k \in DOMAIN f \ {key} |-> f[k]]
             With(f, key, v) == [k \in DOMAIN f \cup {key} |-> IF k = key THEN v ELSE f[k]]
             hit == /\ cache_key \in DOMAIN c.memory_cache
                    /\ c.memory_cache[cache_key].last_modified >= file_mtime
             stale == [c EXCEPT !.memory_cache = Without(@, cache_key),
                                !.access_times = Without(@, cache_key)]
             data_len == e.files[icon_path].bytes * (size[1] \div 64)
         IN  IF hit
             THEN [c EXCEPT !.access_times = With(@, cache_key, e.time)]
             ELSE IF e.files[icon_path].bytes = 0
                  THEN stale
                  ELSE _enforce_cache_size_limit(
                           [stale EXCEPT
                              !.memory_cache = With(@, cache_key,
                                  [data_len |-> data_len, last_modified |-> file_mtime]),
                              !.access_times = With(@, cache_key, e.time)])

\* cache.py 306-318
clear_cache(c) ==
    [c EXCEPT !.memory_cache = << >>, !.access_times = << >>]

\* no concurrent call made
InitConc ==
    /\ calls = [i \in 1..MaxCalls |-> IdleCall]
    /\ procs = << >>

\* config.py 34-51: a ConfigManager just constructed, over no files
InitCfg ==
    /\ config_file = AbsentFile
    /\ backup_file = AbsentFile
    /\ fallback_file = AbsentFile
    /\ _config = None
    /\ notified = FALSE
    /\ cfg_ret = NoOp

\* no call of execute_command made
InitCall ==
    /\ now = 0
    /\ pc = "idle"
    /\ command = << >>
    /\ command_type = SHELL
    /\ working_dir = None
    /\ env = None
    /\ start_time = 0
    /\ verdict = Admit
    /\ spawned = << >>
    /\ faults = << >>
    /\ child = NoChild
    /\ desc = 0
    /\ pipes = 0
    /\ t_spawn = 0
    /\ result = None
    /\ raised = FALSE

Init ==
    /\ fs \in FileSystems
    /\ manifest \in Manifests
    /\ InitCall
    /\ InitConc
    /\ InitCfg
    /\ window = MenuWindow([main |-> 0, in_category |-> 0, categories |-> {}])
    /\ cache = IconCacheManager(MaxCacheMb)
    /\ icon_env = [files |-> << >>, time |-> 0]

(***************************************************************************)
(* The validator on its own: one call of validate_command.                 *)
(***************************************************************************)
Validate(cmd, ctype) ==
    /\ pc = "idle"
    /\ command' = cmd
    /\ command_type' = ctype
    /\ verdict' = validate_command(cmd, ctype, fs)
    /\ pc' = "validated"
    /\ UNCHANGED << conc_vars, cfg_vars, window, cache, icon_env >>
    /\ UNCHANGED << fs, manifest, now, working_dir, env, start_time, spawned,
                    faults, child, desc, pipes, t_spawn, result, raised >>

InitV == Init /\ manifest.state = "absent"

NextV ==
    /\ pc = "idle"
    /\ \E cmd \in ValidatorCommands, ctype \in TypeInputs : Validate(cmd, ctype)

SpecV == InitV /\ [][NextV]_vars

(***************************************************************************)
(* shlex.split(s) in POSIX mode without comments: whitespace separates     *)
(* tokens, a backslash escapes the next character, quotes group.  It       *)
(* raises ValueError on a dangling escape or an unclosed quotation.        *)
(***************************************************************************)
RECURSIVE ShlexFrom(_, _, _, _, _)
ShlexFrom(s, st, cur, inword, acc) ==
    IF s = << >>
    THEN IF st = "esc" \/ st = "dqesc" THEN [ok |-> FALSE, err |-> "No escaped character", args |-> << >>]
         ELSE IF st = "sq" \/ st = "dq" THEN [ok |-> FALSE, err |-> "No closing quotation", args |-> << >>]
         ELSE [ok |-> TRUE, err |-> "", args |-> IF inword THEN Append(acc, cur) ELSE acc]
    ELSE LET ch == Head(s)
             rest == Tail(s)
         IN
         IF st = "esc" THEN ShlexFrom(rest, "word", Append(cur, ch), TRUE, acc)
         ELSE IF st = "sq"
              THEN IF ch = "'" THEN ShlexFrom(rest, "word", cur, TRUE, acc)
                   ELSE ShlexFrom(rest, "sq", Append(cur, ch), TRUE, acc)
         ELSE IF st = "dq"
              THEN IF ch = "\"" THEN ShlexFrom(rest, "word", cur, TRUE, acc)
                   ELSE IF ch = "\\" THEN ShlexFrom(rest, "dqesc", cur, TRUE, acc)
                   ELSE ShlexFrom(rest, "dq", Append(cur, ch), TRUE, acc)
         ELSE IF st = "dqesc"
              THEN IF ch = "\"" \/ ch = "\\"
                   THEN ShlexFrom(rest, "dq", Append(cur, ch), TRUE, acc)
                   ELSE ShlexFrom(rest, "dq", cur \o << "\\", ch >>, TRUE, acc)
         ELSE IF ch \in ShlexWhitespace
              THEN ShlexFrom(rest, "word", << >>, FALSE, IF inword THEN Append(acc, cur) ELSE acc)
         ELSE IF ch = "\\" THEN ShlexFrom(rest, "esc", cur, TRUE, acc)
         ELSE IF ch = "'" THEN ShlexFrom(rest, "sq", cur, TRUE, acc)
         ELSE IF ch = "\"" THEN ShlexFrom(rest, "dq", cur, TRUE, acc)
         ELSE ShlexFrom(rest, "word", Append(cur, ch), TRUE, acc)

shlex_split(s) == ShlexFrom(s, "word", << >>, FALSE, << >>)

(***************************************************************************)
(* ExecutionResult and the results built on each return path.              *)
(***************************************************************************)
max_execution_time == 30

ExecutionResult(success, exit_code, stdout, stderr, execution_time_ms, error) ==
    [success |-> success, exit_code |-> exit_code, stdout |-> stdout, stderr |-> stderr,
     execution_time_ms |-> execution_time_ms, error |-> error]

\* defaults of ExecutionResult.__init__
DefaultExitCode == None
DefaultOutput == ""
DefaultTimeMs == 0
DefaultError == None

\* (time.time() - start_time) * 1000
ElapsedMs(t0, t1) == (t1 - t0) * 1000

FailureWith(error, ms) ==
    ExecutionResult(FALSE, DefaultExitCode, DefaultOutput, DefaultOutput, ms, Some(error))

RejectedResult_NoTime(error_message, t0, t1) ==
    ExecutionResult(FALSE, DefaultExitCode, DefaultOutput, DefaultOutput, DefaultTimeMs, error_message)

\* launcher.py 213-217
RejectedResult(error_message, t0, t1) ==
    ExecutionResult(FALSE, DefaultExitCode, DefaultOutput, DefaultOutput, ElapsedMs(t0, t1), error_message)

\* launcher.py 229-233
UnknownTypeResult(ctype, t0, t1) ==
    FailureWith(Reason("Unknown command type", << ctype >>), ElapsedMs(t0, t1))

\* launcher.py 241-245
UnexpectedResult(e, t0, t1) ==
    FailureWith(Reason("Unexpected error", << e >>), ElapsedMs(t0, t1))

\* launcher.py 255-259
SyntaxResult(e, t0, t1) ==
    FailureWith(Reason("Invalid command syntax", << e >>), ElapsedMs(t0, t1))

ShellResult_AlwaysSuccess(returncode, stdout, stderr, t0, t1) ==
    ExecutionResult(TRUE, Some(returncode), stdout, stderr, ElapsedMs(t0, t1), DefaultError)

\* launcher.py 273-279
ShellResult(returncode, stdout, stderr, t0, t1) ==
    ExecutionResult(returncode = 0, Some(returncode), stdout, stderr, ElapsedMs(t0, t1), DefaultError)

TimeoutError == [msg |-> "Command timed out after seconds", arg |-> << >>, seconds |-> max_execution_time]

TimeoutResult_Success(t0, t1) ==
    ExecutionResult(TRUE, DefaultExitCode, DefaultOutput, DefaultOutput, ElapsedMs(t0, t1), Some(TimeoutError))

\* launcher.py 282-286
TimeoutResult(t0, t1) ==
    FailureWith(TimeoutError, ElapsedMs(t0, t1))

\* launcher.py 288-292
ExecFailedResult(e, t0, t1) ==
    FailureWith(Reason("Execution failed", << e >>), ElapsedMs(t0, t1))

ManifestMissingResult_AsReadError(dir, t0, t1) ==
    FailureWith(Reason("Error reading package.json", dir), ElapsedMs(t0, t1))

\* launcher.py 303-307
ManifestMissingResult(dir, t0, t1) ==
    FailureWith(Reason("package.json not found in", dir), ElapsedMs(t0, t1))

ScriptMissingResult_Launched(script_name, t0, t1) ==
    ExecutionResult(TRUE, Some(0), DefaultOutput, DefaultOutput, ElapsedMs(t0, t1), DefaultError)

\* launcher.py 317-321
ScriptMissingResult(script_name, t0, t1) ==
    FailureWith(Reason("NPM script not found in package.json", script_name), ElapsedMs(t0, t1))

\* launcher.py 323-327
ManifestErrorResult(e, t0, t1) ==
    FailureWith(Reason("Error reading package.json", << e >>), ElapsedMs(t0, t1))

\* launcher.py 369-373
AppLaunchedResult(t0, t1) ==
    ExecutionResult(TRUE, Some(0), DefaultOutput, DefaultOutput, ElapsedMs(t0, t1), DefaultError)

\* launcher.py 376-380
AppFailedResult(e, t0, t1) ==
    FailureWith(Reason("Failed to launch application", << e >>), ElapsedMs(t0, t1))

(***************************************************************************)
(* OS process spawn calls.  ok is the outcome the OS gives: FALSE when     *)
(* Popen raises (missing binary, permission denied, bad cwd, ...).         *)
(***************************************************************************)
SubprocessRun_Shell(args, cwd, ev, ok) ==
    [api |-> "run", argv |-> args, cwd |-> cwd, env |-> ev, shell |-> TRUE,
     start_new_session |-> TRUE, wait |-> TRUE, ok |-> ok]

\* launcher.py 263-271: subprocess.run(args, cwd, env, timeout, capture_output, text, start_new_session)
SubprocessRun(args, cwd, ev, ok) ==
    [api |-> "run", argv |-> args, cwd |-> cwd, env |-> ev, shell |-> FALSE,
     start_new_session |-> TRUE, wait |-> TRUE, ok |-> ok]

SubprocessPopen_Attached(args, cwd, ev, ok) ==
    [api |-> "Popen", argv |-> args, cwd |-> cwd, env |-> ev, shell |-> FALSE,
     start_new_session |-> FALSE, wait |-> FALSE, ok |-> ok]

\* launcher.py 348-355, 359-366: subprocess.Popen(args, cwd, env, start_new_session, DEVNULL, DEVNULL)
SubprocessPopen(args, cwd, ev, ok) ==
    [api |-> "Popen", argv |-> args, cwd |-> cwd, env |-> ev, shell |-> FALSE,
     start_new_session |-> TRUE, wait |-> FALSE, ok |-> ok]

(***************************************************************************)
(* What a stretch of the handler leads to: it returns a result, it blocks  *)
(* in subprocess.run waiting for the child, or it raises.                  *)
(***************************************************************************)
Returns(res, sp, fl) == [kind |-> "return", result |-> Some(res), spawned |-> sp, faults |-> fl]
Waits(sp) == [kind |-> "wait", result |-> None, spawned |-> sp, faults |-> << >>]
Raises(e) == [kind |-> "raise", result |-> None, spawned |-> << >>, faults |-> << e >>]

\* launcher.py 247-292, up to the point where subprocess.run waits
_execute_shell_command(cmd, wd, ev, t0, t1, spawn_ok) ==
    LET tok == shlex_split(cmd) IN
    IF ~tok.ok
    THEN Returns(SyntaxResult(tok.err, t0, t1), << >>, << "ValueError" >>)
    ELSE LET ok == spawn_ok /\ tok.args # << >>
             sp == SubprocessRun(tok.args, wd, ev, ok)
         IN  IF ok THEN Waits(<< sp >>)
             ELSE Returns(ExecFailedResult("OSError", t0, t1), << sp >>, << "OSError" >>)

CwdDir == << "/", "c" >>
WorkDir == << "/", "w" >>
NpmRun == << "n", "p", "m", " ", "r", "u", "n", " " >>
Python3 == << "p", "y", "t", "h", "o", "n", "3", " " >>
GtkLaunch == << "g", "t", "k", "-", "l", "a", "u", "n", "c", "h", " " >>

\* launcher.py 294-331; m is the package.json of the resolved directory
_execute_npm_command(script_name, wd, ev, t0, t1, spawn_ok, cwd_ok, m) ==
    IF wd = None /\ ~cwd_ok THEN Raises("FileNotFoundError")
    ELSE LET dir == IF wd = None THEN CwdDir ELSE wd[1] IN
         IF m.state = "absent"
         THEN Returns(ManifestMissingResult(dir, t0, t1), << >>, << >>)
         ELSE IF m.state = "invalid"
         THEN Returns(ManifestErrorResult("JSONDecodeError", t0, t1), << >>, << "JSONDecodeError" >>)
         ELSE IF script_name \notin m.scripts
         THEN Returns(ScriptMissingResult(script_name, t0, t1), << >>, << >>)
         ELSE _execute_shell_command(NpmRun \o script_name, Some(dir), ev, t0, t1, spawn_ok)

\* launcher.py 333-337
_execute_python_command(script_path, wd, ev, t0, t1, spawn_ok) ==
    _execute_shell_command(Python3 \o script_path, wd, ev, t0, t1, spawn_ok)

\* launcher.py 339-380
_execute_app_command(cmd, wd, ev, t0, t1, spawn_ok) ==
    LET line == IF endswith(cmd, << ".", "d", "e", "s", "k", "t", "o", "p" >>)
                THEN GtkLaunch \o basename(cmd)
                ELSE cmd
        tok == shlex_split(line)
    IN  IF ~tok.ok
        THEN Returns(AppFailedResult(tok.err, t0, t1), << >>, << "ValueError" >>)
        ELSE LET ok == spawn_ok /\ tok.args # << >>
                 sp == SubprocessPopen(tok.args, wd, ev, ok)
             IN  IF ok THEN Returns(AppLaunchedResult(t0, t1), << sp >>, << >>)
                 ELSE Returns(AppFailedResult("OSError", t0, t1), << sp >>, << "OSError" >>)

\* launcher.py 220-233: the dispatch on the command type
Dispatch(cmd, ctype, wd, ev, t0, t1, spawn_ok, cwd_ok, m) ==
    IF ctype = SHELL THEN _execute_shell_command(cmd, wd, ev, t0, t1, spawn_ok)
    ELSE IF ctype = NPM THEN _execute_npm_command(cmd, wd, ev, t0, t1, spawn_ok, cwd_ok, m)
    ELSE IF ctype = PYTHON THEN _execute_python_command(cmd, wd, ev, t0, t1, spawn_ok)
    ELSE IF ctype = APP THEN _execute_app_command(cmd, wd, ev, t0, t1, spawn_ok)
    ELSE Returns(UnknownTypeResult(ctype, t0, t1), << >>, << >>)

OuterExcept_Missing(out, t0, t1) == out

\* launcher.py 219, 239-245: the try/except around the dispatch
OuterExcept(out, t0, t1) ==
    IF out.kind = "raise"
    THEN Returns(UnexpectedResult(out.faults[1], t0, t1), out.spawned, out.faults)
    ELSE out

IsRejected_Never(v) == FALSE

\* launcher.py 212: if not is_valid
IsRejected(v) == ~v.is_valid

\* launcher.py 208-245, up to the return or to the wait inside subprocess.run
execute_command(cmd, ctype, wd, ev, t0, t1, spawn_ok, cwd_ok, f, m) ==
    LET v == validate_command(cmd, ctype, f) IN
    IF IsRejected(v)
    THEN Returns(RejectedResult(v.error, t0, t1), << >>, << >>)
    ELSE OuterExcept(Dispatch(cmd, ctype, wd, ev, t0, t1, spawn_ok, cwd_ok, m), t0, t1)

(***************************************************************************)
(* The launcher: one call of execute_command and the processes it starts.  *)
(***************************************************************************)
Durations == {0, Quantum}
\* the optional arguments: both left out, or both given
Contexts ==
    { [working_dir |-> None, env |-> None],
      [working_dir |-> Some(WorkDir), env |-> Some("env")] }
ExitCodes == {0, 1}
\* what the child wrote: text, or bytes that are not valid UTF-8
Outputs == {"text", "undecodable"}

Running == [state |-> "running", code |-> None, out |-> "none"]

\* the OS can execute the program: a bare argv[0] is looked up on PATH, a path
\* must exist with the execute bit
Executable(f, prog) ==
    IF Contains(prog, "/") THEN prog \in f.files /\ prog \in f.exec ELSE prog \in f.onpath

\* whether the spawn of a call can succeed in file system f: the Shell strategy and
\* the direct Application form execute the command's own first token; npm, python3
\* and gtk-launch are installed or not, which spawn_ok alone decides
SpawnCanSucceed(cmd, ctype, f) ==
    IF ctype = SHELL \/ (ctype = APP /\ ~endswith(cmd, << ".", "d", "e", "s", "k", "t", "o", "p" >>))
    THEN LET tok == shlex_split(cmd) IN
         (tok.ok /\ tok.args # << >>) => Executable(f, tok.args[1])
    ELSE TRUE

\* execute_command is entered and runs until it returns or waits for the child
Call(cmd, ctype, wd, ev, d, spawn_ok, cwd_ok) ==
    /\ pc = "idle"
    /\ spawn_ok => SpawnCanSucceed(cmd, ctype, fs)
    /\ \E out \in {execute_command(cmd, ctype, wd, ev, now, now + d, spawn_ok, cwd_ok, fs, manifest)} :
           /\ command' = cmd
           /\ command_type' = ctype
           /\ working_dir' = wd
           /\ env' = ev
           /\ start_time' = now
           /\ now' = now + d
           /\ verdict' = validate_command(cmd, ctype, fs)
           /\ spawned' = out.spawned
           /\ faults' = out.faults
           /\ child' = IF \E i \in 1..Len(out.spawned) : out.spawned[i].ok
                        THEN Running ELSE NoChild
           /\ t_spawn' = now + d
           /\ result' = out.result
           /\ raised' = (out.kind = "raise")
           /\ pc' = IF out.kind = "wait" THEN "waiting" ELSE "done"
    /\ UNCHANGED << conc_vars, cfg_vars, window, cache, icon_env >>
    /\ UNCHANGED << fs, manifest, desc, pipes >>

\* subprocess.run has what it waits for: the child exited and the pipes are at EOF
RunComplete == child.state = "exited" /\ pipes = 0
\* the timeout of subprocess.run has expired
Expired == now - t_spawn >= max_execution_time

\* the child starts a process of its own, which inherits session and pipes
ChildFork ==
    /\ pc = "waiting"
    /\ child.state = "running"
    /\ desc < MaxDesc
    /\ desc' = desc + 1
    /\ pipes' = pipes + 1
    /\ UNCHANGED << conc_vars, cfg_vars, window, cache, icon_env >>
    /\ UNCHANGED << fs, manifest, now, pc, command, command_type, working_dir, env,
                    start_time, verdict, spawned, faults, child, t_spawn, result, raised >>

\* a descendant closes its copies of the pipes
DescClose ==
    /\ pc = "waiting"
    /\ pipes > 0
    /\ pipes' = pipes - 1
    /\ UNCHANGED << conc_vars, cfg_vars, window, cache, icon_env >>
    /\ UNCHANGED << fs, manifest, now, pc, command, command_type, working_dir, env,
                    start_time, verdict, spawned, faults, child, desc, t_spawn, result, raised >>

\* a descendant exits
DescExit ==
    /\ pc = "waiting"
    /\ desc > 0
    /\ desc' = desc - 1
    /\ pipes' \in {p \in {pipes - 1, pipes} : p >= 0 /\ p <= desc - 1}
    /\ UNCHANGED << conc_vars, cfg_vars, window, cache, icon_env >>
    /\ UNCHANGED << fs, manifest, now, pc, command, command_type, working_dir, env,
                    start_time, verdict, spawned, faults, child, t_spawn, result, raised >>

\* the child exits by itself
ChildExit(code, output) ==
    /\ pc = "waiting"
    /\ child.state = "running"
    /\ child' = [state |-> "exited", code |-> Some(code), out |-> output]
    /\ UNCHANGED << conc_vars, cfg_vars, window, cache, icon_env >>
    /\ UNCHANGED << fs, manifest, now, pc, command, command_type, working_dir, env,
                    start_time, verdict, spawned, faults, desc, pipes, t_spawn, result, raised >>

\* time passes while subprocess.run waits
Tick ==
    /\ pc = "waiting"
    /\ ~RunComplete
    /\ ~Expired
    /\ now < MaxTime
    /\ now' = now + Quantum
    /\ UNCHANGED << conc_vars, cfg_vars, window, cache, icon_env >>
    /\ UNCHANGED << fs, manifest, pc, command, command_type, working_dir, env,
                    start_time, verdict, spawned, faults, child, desc, pipes, t_spawn,
                    result, raised >>

\* launcher.py 273-279, 287-292: subprocess.run returns (or fails to decode the output)
Complete ==
    /\ pc = "waiting"
    /\ RunComplete
    /\ IF child.out = "undecodable"
       THEN /\ result' = Some(ExecFailedResult("UnicodeDecodeError", start_time, now))
            /\ faults' = Append(faults, "UnicodeDecodeError")
       ELSE /\ result' = Some(ShellResult(child.code[1], child.out, "", start_time, now))
            /\ faults' = faults
    /\ pc' = "done"
    /\ UNCHANGED << conc_vars, cfg_vars, window, cache, icon_env >>
    /\ UNCHANGED << fs, manifest, now, command, command_type, working_dir, env,
                    start_time, verdict, spawned, child, desc, pipes, t_spawn, raised >>

\* subprocess.run on expiry: Popen.kill() signals the child alone, then it is reaped
KillOnTimeout(c) == IF c.state = "running" THEN [c EXCEPT !.state = "killed"] ELSE c

\* launcher.py 281-286: subprocess.run raises TimeoutExpired
Timeout ==
    /\ pc = "waiting"
    /\ Expired
    /\ ~RunComplete
    /\ child' = KillOnTimeout(child)
    /\ result' = Some(TimeoutResult(start_time, now))
    /\ faults' = Append(faults, "TimeoutExpired")
    /\ pc' = "done"
    /\ UNCHANGED << conc_vars, cfg_vars, window, cache, icon_env >>
    /\ UNCHANGED << fs, manifest, now, command, command_type, working_dir, env,
                    start_time, verdict, spawned, desc, pipes, t_spawn, raised >>

Next ==
    \/ /\ pc = "idle"
       /\ \E cmd \in LauncherCommands, ctype \in TypeInputs, ctx \in Contexts,
             d \in Durations, spawn_ok \in BOOLEAN :
               \E cwd_ok \in (IF ctype = NPM /\ ctx.working_dir = None THEN BOOLEAN ELSE {TRUE}) :
                   Call(cmd, ctype, ctx.working_dir, ctx.env, d, spawn_ok, cwd_ok)
    \/ ChildFork
    \/ DescClose
    \/ DescExit
    \/ \E code \in ExitCodes, output \in Outputs : ChildExit(code, output)
    \/ Tick
    \/ Complete
    \/ Timeout

Spec == Init /\ [][Next]_vars

(***************************************************************************)
(* Several calls of execute_command in progress at once on one             *)
(* CommandLauncher.  The launcher holds a validator and a time limit and   *)
(* nothing else; every call keeps its child in a local variable.           *)
(***************************************************************************)
ConcurrentCommands ==
    { BareName, << "l", "s", " ", "-", "l" >>, << "r", "m" >> }

\* what a child leaves behind: exit code, stdout, stderr
ChildResults ==
    { [code |-> 0, out |-> "a", err |-> ""],
      [code |-> 1, out |-> "", err |-> "b"],
      [code |-> 0, out |-> "b", err |-> "a"] }

OwnChild_Latest(cs, i) == Len(procs)

\* launcher.py 263: `result = subprocess.run(...)`, a local of the call
OwnChild(cs, i) == cs[i].proc

\* call i enters execute_command and runs until it returns or waits for its child
CStart(i, cmd, spawn_ok) ==
    /\ calls[i].pc = "idle"
    /\ \E out \in {execute_command(cmd, SHELL, None, None, now, now, spawn_ok, TRUE, fs, manifest)} :
           IF out.kind = "wait"
           THEN /\ procs' = Append(procs, [state |-> "running", code |-> None, out |-> "",
                                           err |-> "", argv |-> out.spawned[1].argv])
                /\ calls' = [calls EXCEPT ![i] = [pc |-> "waiting", command |-> cmd,
                                                  proc |-> Len(procs) + 1, result |-> None]]
           ELSE /\ procs' = procs
                /\ calls' = [calls EXCEPT ![i] = [pc |-> "done", command |-> cmd,
                                                  proc |-> 0, result |-> out.result]]
    /\ UNCHANGED << call_vars, cfg_vars, window, cache, icon_env >>

\* child p exits, having written its output to its own pipes
CChildExit(p, r) ==
    /\ procs[p].state = "running"
    /\ procs' = [procs EXCEPT ![p] = [@ EXCEPT !.state = "exited", !.code = Some(r.code),
                                                !.out = r.out, !.err = r.err]]
    /\ UNCHANGED << calls, call_vars, cfg_vars, window, cache, icon_env >>

\* launcher.py 273-279: subprocess.run of call i returns
CComplete(i) ==
    /\ calls[i].pc = "waiting"
    /\ LET c == procs[OwnChild(calls, i)] IN
           /\ c.state = "exited"
           /\ calls' = [calls EXCEPT ![i].pc = "done",
                                     ![i].result = Some(ShellResult(c.code[1], c.out, c.err, now, now))]
    /\ UNCHANGED << procs, call_vars, cfg_vars, window, cache, icon_env >>

InitC ==
    /\ fs = [files |-> {}, exec |-> {}, onpath |-> {BareName}]
    /\ manifest = [state |-> "absent", scripts |-> {}]
    /\ InitCall
    /\ InitConc
    /\ InitCfg
    /\ window = MenuWindow([main |-> 0, in_category |-> 0, categories |-> {}])
    /\ cache = IconCacheManager(MaxCacheMb)
    /\ icon_env = [files |-> << >>, time |-> 0]

NextC ==
    \/ \E i \in 1..MaxCalls, cmd \in ConcurrentCommands, spawn_ok \in BOOLEAN :
           CStart(i, cmd, spawn_ok)
    \/ \E p \in 1..Len(procs), r \in ChildResults : CChildExit(p, r)
    \/ \E i \in 1..MaxCalls : CComplete(i)

SpecC == InitC /\ [][NextC]_vars

(***************************************************************************)
(* ConfigManager (aur-submission/fredon-menu-git/src/menu/config.py) over  *)
(* MenuConfig (src/menu/models.py).  Of a MenuConfig the model keeps the   *)
(* two fields __post_init__ requires, title and icon.  A file is absent,   *)
(* holds text that is not JSON, or holds a JSON object whose "menu" entry  *)
(* may have a title and an icon.                                           *)
(***************************************************************************)
MenuConfig(title, icon) == [title |-> title, icon |-> icon]

TextFile == [kind |-> "text", data |-> None]
JsonFile(d) == [kind |-> "json", data |-> Some(d)]
MenuData(title, icon) == [title |-> title, icon |-> icon]

\* models.py MenuConfig.from_dict with MenuConfig.__post_init__
from_dict(d) ==
    LET title == IF d.title = None THEN "Fredon Menu" ELSE d.title[1]
        icon == IF d.icon = None THEN "" ELSE d.icon[1]
    IN  IF title = "" \/ icon = ""
        THEN [ok |-> FALSE, exc |-> "ValueError", config |-> None]
        ELSE [ok |-> TRUE, exc |-> "", config |-> Some(MenuConfig(title, icon))]

\* models.py MenuConfig.to_dict
to_dict(c) == MenuData(Some(c.title), Some(c.icon))

\* config.py 118-125
_create_minimal_config ==
    MenuConfig("Fredon Menu", "/usr/share/icons/hicolor/256x256/apps/fredon-menu.png")

\* config.py 103-116
_load_default_config(fb) ==
    IF fb.kind = "absent" THEN _create_minimal_config
    ELSE IF fb.kind = "text" THEN _create_minimal_config
    ELSE LET r == from_dict(fb.data[1]) IN
         IF r.ok THEN r.config[1] ELSE _create_minimal_config

\* what the operating system does to a save: nothing wrong, the rename of
\* the old file fails, or the write of the new file fails
IOOutcomes == {"ok", "rename_fails", "write_fails"}

\* config.py 127-154
save_config(cur, file, backup, io) ==
    IF cur = None THEN [ok |-> FALSE, file |-> file, backup |-> backup]
    ELSE IF file.kind # "absent" /\ io = "rename_fails"
    THEN [ok |-> FALSE, file |-> file, backup |-> backup]
    ELSE LET bak == IF file.kind # "absent" THEN file ELSE backup IN
         IF io = "write_fails"
         THEN [ok |-> FALSE, file |-> AbsentFile, backup |-> bak]
         ELSE [ok |-> TRUE, file |-> JsonFile(to_dict(cur[1])), backup |-> bak]

LoadBody_IgnoreFile(file, fb) ==
    [exc |-> None, config |-> Some(_load_default_config(fb)), save |-> file.kind = "absent"]

\* config.py 80-89: the body of the try block of load_config
LoadBody(file, fb) ==
    IF file.kind = "absent"
    THEN [exc |-> None, config |-> Some(_load_default_config(fb)), save |-> TRUE]
    ELSE IF file.kind = "text"
    THEN [exc |-> Some("JSONDecodeError"), config |-> None, save |-> FALSE]
    ELSE LET r == from_dict(file.data[1]) IN
         IF r.ok THEN [exc |-> None, config |-> r.config, save |-> FALSE]
         ELSE [exc |-> Some(r.exc), config |-> None, save |-> FALSE]

LoadExcept_JsonOnly(body, fb) ==
    IF body.exc = Some("JSONDecodeError")
    THEN [exc |-> None, config |-> Some(_load_default_config(fb)), save |-> FALSE]
    ELSE body

\* config.py 91-99: the except clauses of load_config
LoadExcept(body, fb) ==
    IF body.exc # None
    THEN [exc |-> None, config |-> Some(_load_default_config(fb)), save |-> FALSE]
    ELSE body

\* config.py 70-101; cur is self._config on entry
load_config(cur, file, backup, fb, io) ==
    LET b == LoadExcept(LoadBody(file, fb), fb) IN
    IF b.exc # None
    THEN [raised |-> TRUE, config |-> cur, file |-> file, backup |-> backup]
    ELSE IF b.save
    THEN LET s == save_config(b.config, file, backup, io) IN
         [raised |-> FALSE, config |-> b.config, file |-> s.file, backup |-> s.backup]
    ELSE [raised |-> FALSE, config |-> b.config, file |-> file, backup |-> backup]

\* what an operation hands back, and the operation that came before it
Ret(op, ok, config, exc) ==
    [op |-> op, ok |-> ok, config |-> config, raised |-> exc, prev |-> cfg_ret.op]

\* config.py 70-101
LoadConfig(io) ==
    /\ \E r \in {load_config(_config, config_file, backup_file, fallback_file, io)} :
           /\ _config' = r.config
           /\ config_file' = r.file
           /\ backup_file' = r.backup
           /\ cfg_ret' = Ret("load_config", ~r.raised, IF r.raised THEN None ELSE r.config, r.raised)
    /\ notified' = FALSE
    /\ UNCHANGED << fallback_file, call_vars, conc_vars, window, cache, icon_env >>

\* config.py 127-154
SaveConfig(io) ==
    /\ \E s \in {save_config(_config, config_file, backup_file, io)} :
           /\ config_file' = s.file
           /\ backup_file' = s.backup
           /\ cfg_ret' = Ret("save_config", s.ok, None, FALSE)
    /\ notified' = FALSE
    /\ UNCHANGED << _config, fallback_file, call_vars, conc_vars, window, cache, icon_env >>

\* config.py 156-176
ReloadConfig(io) ==
    /\ \E r \in {load_config(_config, config_file, backup_file, fallback_file, io)} :
           /\ _config' = r.config
           /\ config_file' = r.file
           /\ backup_file' = r.backup
           /\ notified' = (~r.raised /\ _config # r.config)
           /\ cfg_ret' = Ret("reload_config", ~r.raised, None, FALSE)
    /\ UNCHANGED << fallback_file, call_vars, conc_vars, window, cache, icon_env >>

\* config.py 178-187
GetConfig(io) ==
    /\ IF _config = None
       THEN \E r \in {load_config(_config, config_file, backup_file, fallback_file, io)} :
                /\ _config' = r.config
                /\ config_file' = r.file
                /\ backup_file' = r.backup
                /\ cfg_ret' = Ret("get_config", ~r.raised, IF r.raised THEN None ELSE r.config, r.raised)
       ELSE /\ cfg_ret' = Ret("get_config", TRUE, _config, FALSE)
            /\ UNCHANGED << _config, config_file, backup_file >>
    /\ notified' = FALSE
    /\ UNCHANGED << fallback_file, call_vars, conc_vars, window, cache, icon_env >>

Titles == {"", "Modified Menu"}

\* config.py 189-212: update_config(title=t)
UpdateConfig(t, io, io2) ==
    /\ \E r \in {IF _config = None
                 THEN load_config(_config, config_file, backup_file, fallback_file, io)
                 ELSE [raised |-> FALSE, config |-> _config, file |-> config_file,
                       backup |-> backup_file]} :
           IF r.raised
           THEN /\ cfg_ret' = Ret("update_config", FALSE, None, TRUE)
                /\ UNCHANGED << _config, config_file, backup_file >>
           ELSE LET upd == Some([r.config[1] EXCEPT !.title = t])
                    s == save_config(upd, r.file, r.backup, io2)
                IN  /\ _config' = upd
                    /\ config_file' = s.file
                    /\ backup_file' = s.backup
                    /\ cfg_ret' = Ret("update_config", s.ok, None, FALSE)
    /\ notified' = FALSE
    /\ UNCHANGED << fallback_file, call_vars, conc_vars, window, cache, icon_env >>

\* a caller assigns the held configuration (tests/test_config.py 267-268)
SetConfig(c) ==
    /\ _config' = Some(c)
    /\ cfg_ret' = Ret("set", TRUE, None, FALSE)
    /\ notified' = FALSE
    /\ UNCHANGED << config_file, backup_file, fallback_file, call_vars, conc_vars, window, cache, icon_env >>

\* another program writes or removes the configuration file (tests/test_config.py 275-276)
Overwrite(content) ==
    /\ config_file' = content
    /\ cfg_ret' = Ret("overwrite", TRUE, None, FALSE)
    /\ notified' = FALSE
    /\ UNCHANGED << _config, backup_file, fallback_file, call_vars, conc_vars, window, cache, icon_env >>

\* contents a user's configuration file may have
FileContents ==
    {AbsentFile, TextFile}
      \cup {JsonFile(MenuData(t, i)) : t \in {None, Some(""), Some("Modified Menu")},
                                       i \in {None, Some("new.png")}}

\* contents the packaged default.json may have
FallbackContents ==
    { AbsentFile, TextFile,
      JsonFile(MenuData(None, None)),
      JsonFile(MenuData(Some("Default Menu"), Some("default.png"))) }

DirectConfigs == {MenuConfig("Test Menu", "test.png")}

InitM ==
    /\ fs = [files |-> {}, exec |-> {}, onpath |-> {}]
    /\ manifest = [state |-> "absent", scripts |-> {}]
    /\ InitCall
    /\ InitConc
    /\ window = MenuWindow([main |-> 0, in_category |-> 0, categories |-> {}])
    /\ cache = IconCacheManager(MaxCacheMb)
    /\ icon_env = [files |-> << >>, time |-> 0]
    /\ config_file \in FileContents
    /\ backup_file = AbsentFile
    /\ fallback_file \in FallbackContents
    /\ _config = None
    /\ notified = FALSE
    /\ cfg_ret = NoOp

NextM ==
    \/ \E io \in IOOutcomes : LoadConfig(io)
    \/ \E io \in IOOutcomes : SaveConfig(io)
    \/ \E io \in IOOutcomes : ReloadConfig(io)
    \/ \E io \in (IF _config = None THEN IOOutcomes ELSE {"ok"}) : GetConfig(io)
    \/ \E t \in Titles, io \in (IF _config = None THEN IOOutcomes ELSE {"ok"}),
          io2 \in IOOutcomes : UpdateConfig(t, io, io2)
    \/ \E c \in DirectConfigs : SetConfig(c)
    \/ \E content \in FileContents : Overwrite(content)

SpecM == InitM /\ [][NextM]_vars

(***************************************************************************)
(* The MenuWindow on its own: the public calls, the clicks on the          *)
(* pagination buttons it shows, the key presses, and the configuration     *)
(* changes the application passes on.                                      *)
(***************************************************************************)
\* a window constructed over a configuration without buttons
InitW ==
    /\ fs = [files |-> {}, exec |-> {}, onpath |-> {}]
    /\ manifest = [state |-> "absent", scripts |-> {}]
    /\ InitCall
    /\ InitConc
    /\ InitCfg
    /\ window = MenuWindow([main |-> 0, in_category |-> 0, categories |-> {}])
    /\ cache = IconCacheManager(MaxCacheMb)
    /\ icon_env = [files |-> << >>, time |-> 0]

NextW ==
    \/ /\ window' = show_main_menu(window)
       /\ UNCHANGED << call_vars, conc_vars, cfg_vars, cache, icon_env >>
    \/ /\ \E category_id \in {"c1", "c2"} :
              window' = show_category_menu(window, category_id)
       /\ UNCHANGED << call_vars, conc_vars, cfg_vars, cache, icon_env >>
    \/ /\ window.prev_sensitive
       /\ window' = _on_prev_page(window)
       /\ UNCHANGED << call_vars, conc_vars, cfg_vars, cache, icon_env >>
    \/ /\ window.next_sensitive
       /\ window' = _on_next_page(window)
       /\ UNCHANGED << call_vars, conc_vars, cfg_vars, cache, icon_env >>
    \/ /\ \E keyname \in {"Escape", "Left", "Right", "BackSpace"} :
              window' = _on_key_press(window, keyname)
       /\ UNCHANGED << call_vars, conc_vars, cfg_vars, cache, icon_env >>
    \/ /\ \E config \in [main : {0, 1, 10, 11, MaxButtons},
                         in_category : {0, 1, 10, 11, MaxButtons},
                         categories : SUBSET {"c1"}] :
              window' = _on_config_changed(window, config)
       /\ UNCHANGED << call_vars, conc_vars, cfg_vars, cache, icon_env >>

SpecW == InitW /\ [][NextW]_vars

(***************************************************************************)
(* The IconCacheManager on its own: load_icon and clear_cache calls, and   *)
(* icon files rewritten in between.  Every step takes time.                *)
(***************************************************************************)
\* a manager just constructed, over a directory of two icon files
InitI ==
    /\ fs = [files |-> {}, exec |-> {}, onpath |-> {}]
    /\ manifest = [state |-> "absent", scripts |-> {}]
    /\ InitCall
    /\ InitConc
    /\ InitCfg
    /\ window = MenuWindow([main |-> 0, in_category |-> 0, categories |-> {}])
    /\ cache \in { IconCacheManager(mb) : mb \in 0..MaxCacheMb }
    /\ icon_env \in [files : [{"a.png", "b.svg"} ->
                                 [exists : BOOLEAN, mtime : {0}, bytes : {0, 300000, 600000}]],
                     time : {1}]

NextI ==
    \/ /\ icon_env.time < MaxIconTime
       /\ \E icon_path \in {""} \cup DOMAIN icon_env.files,
             size \in {<< 64, 64 >>, << 128, 128 >>} :
              cache' = load_icon(cache, icon_env, icon_path, size)
       /\ icon_env' = [icon_env EXCEPT !.time = @ + 1]
       /\ UNCHANGED << call_vars, conc_vars, cfg_vars, window >>
    \/ /\ cache' = clear_cache(cache)
       /\ UNCHANGED << icon_env, call_vars, conc_vars, cfg_vars, window >>
    \/ /\ icon_env.time < MaxIconTime
       /\ \E icon_path \in DOMAIN icon_env.files, bytes \in {0, 300000, 600000} :
              icon_env' = [files |-> [icon_env.files EXCEPT ![icon_path] =
                                         [exists |-> TRUE, mtime |-> icon_env.time,
                                          bytes |-> bytes]],
                           time |-> icon_env.time + 1]
       /\ UNCHANGED << cache, call_vars, conc_vars, cfg_vars, window >>

SpecI == InitI /\ [][NextI]_vars

(***************************************************************************)
(* Properties.                                                             *)
(***************************************************************************)
Returned == pc = "done" /\ result # None
Waited == {SHELL, NPM, PYTHON}

\* C1: execute_command always returns an ExecutionResult and no exception reaches
\* the caller; a call in which an internal fault was raised returns success=false.
C1_NeverThrows ==
    /\ ~raised
    /\ pc = "done" =>
         /\ result # None
         /\ (faults # << >> => result[1].success = FALSE)

\* a fault raised in the dispatch (os.getcwd) came back as a failure result
C1_Witness ==
    /\ pc = "done"
    /\ faults = << "FileNotFoundError" >>
    /\ result # None
    /\ result[1].success = FALSE
    /\ result[1].error[1].msg = "Unexpected error"

\* C2: when validate_command rejects the pair, the call returns success=false with
\* the validator's reason as error and spawns no process.
C2_RejectedNoSpawn ==
    (pc \in {"waiting", "done"} /\ ~verdict.is_valid) =>
        /\ pc = "done"
        /\ spawned = << >>
        /\ child = NoChild
        /\ result # None
        /\ result[1].success = FALSE
        /\ result[1].error = verdict.error

\* a blocked command name was rejected in the shell category without a spawn
C2_Witness ==
    /\ pc = "done"
    /\ command = << "r", "m" >>
    /\ command_type = SHELL
    /\ spawned = << >>
    /\ result # None
    /\ result[1].error = Some(Reason("Blocked command", << "r", "m" >>))

\* the line of text the launcher tokenizes for a call
SpawnLine ==
    IF command_type = NPM THEN NpmRun \o command
    ELSE IF command_type = PYTHON THEN Python3 \o command
    ELSE IF command_type = APP /\ endswith(command, << ".", "d", "e", "s", "k", "t", "o", "p" >>)
         THEN GtkLaunch \o basename(command)
    ELSE command

\* C3: every spawn call of the launcher passes an argv list, the tokens of the
\* command line, to the OS; none goes through a shell.
C3_NoShell ==
    \A i \in 1..Len(spawned) :
        /\ spawned[i].shell = FALSE
        /\ spawned[i].argv = shlex_split(SpawnLine).args

\* a package script was spawned as the argv [npm, run, ls]
C3_Witness ==
    /\ command_type = NPM
    /\ Len(spawned) = 1
    /\ spawned[1].ok
    /\ spawned[1].argv = << << "n", "p", "m" >>, << "r", "u", "n" >>, << "l", "s" >> >>

\* C4: a command holding a blocked character at any position is rejected, in
\* every category.
C4_BlockedCharRejected ==
    (pc = "validated" /\ \E i \in 1..Len(command) : command[i] \in BlockedCharSet) =>
        ~verdict.is_valid

\* an apostrophe between other characters was rejected for an application
C4_Witness ==
    /\ pc = "validated"
    /\ command = << "x", "'", "x" >>
    /\ command_type = APP
    /\ ~verdict.is_valid

\* C5: a command whose first whitespace-delimited token is a blocked command name
\* is rejected, in every category, whatever follows.
C5_BlockedNameRejected ==
    (pc = "validated" /\ split(command) # << >> /\ split(command)[1] \in BlockedNameSet) =>
        ~verdict.is_valid

\* rm followed by a harmless token was rejected as a blocked command
C5_Witness ==
    /\ pc = "validated"
    /\ command = << "\t", "r", "m", "\t", "l", "s" >>
    /\ command_type = SHELL
    /\ verdict.error = Some(Reason("Blocked command", << "r", "m" >>))

TimedOut == Returned /\ result[1].error = Some(TimeoutError)

C7_TimeoutResult ==
    (pc = "done" /\ child.state = "killed") =>
        /\ result # None
        /\ result[1].success = FALSE
        /\ result[1].error # None
        /\ result[1].error[1].msg = "Command timed out after seconds"
        /\ result[1].error[1].seconds = max_execution_time
        /\ result[1].exit_code = None

\* the child was still running 30 seconds after the spawn and was killed
C7_Witness ==
    /\ pc = "done"
    /\ child.state = "killed"
    /\ now - t_spawn >= max_execution_time
    /\ result # None
    /\ result[1].success = FALSE

\* C8: in every result, error is set exactly when success is false.
C8_ErrorIffFailure ==
    Returned => (result[1].error # None <=> result[1].success = FALSE)

\* C9: success=true comes only from a waited child that exited with code 0 or from
\* an application spawned without waiting.
C9_SuccessOrigin ==
    (Returned /\ result[1].success) =>
        \/ /\ command_type \in Waited
           /\ result[1].exit_code = Some(0)
           /\ child.state = "exited"
           /\ child.code = Some(0)
           /\ Len(spawned) = 1
           /\ spawned[1].wait
        \/ /\ command_type = APP
           /\ Len(spawned) = 1
           /\ spawned[1].ok
           /\ ~spawned[1].wait

\* an interpreter call succeeded after its child exited with code 0
C9_Witness ==
    /\ Returned
    /\ result[1].success
    /\ command_type = PYTHON
    /\ child.code = Some(0)

\* C10: on every return path execution_time_ms is the time elapsed since the start
\* time recorded at entry.
C10_ElapsedPopulated ==
    pc = "done" =>
        /\ result # None
        /\ result[1].execution_time_ms = (now - start_time) * 1000

\* a validation rejection carries a non-default elapsed time
C10_Witness ==
    /\ pc = "done"
    /\ ~verdict.is_valid
    /\ result # None
    /\ result[1].execution_time_ms > DefaultTimeMs
    /\ result[1].execution_time_ms = (now - start_time) * 1000

\* the call has gone as far as it goes without the child: it returned or it waits
Entered == pc \in {"waiting", "done"}
\* os.getcwd() failed: the call had no working directory to resolve
NoDirectory == faults = << "FileNotFoundError" >>
\* the directory in which the PackageScript strategy looks for package.json
ResolvedDir == IF working_dir = None THEN CwdDir ELSE working_dir[1]

\* C11: an admitted PackageScript request whose resolved working directory (the
\* caller's, else the current one) holds no package.json returns success=false with
\* the error that names the missing manifest and the directory, and spawns nothing.
C11_ManifestMissing ==
    (Entered /\ command_type = NPM /\ verdict.is_valid /\ ~NoDirectory
       /\ manifest.state = "absent")
      => /\ Returned
         /\ ~result[1].success
         /\ result[1].error = Some(Reason("package.json not found in", ResolvedDir))
         /\ spawned = << >>

C11_Witness ==
    /\ Returned
    /\ command_type = NPM
    /\ command = BareName
    /\ working_dir = Some(WorkDir)
    /\ manifest.state = "absent"
    /\ result[1].error = Some(Reason("package.json not found in", WorkDir))
    /\ spawned = << >>

\* the keys of the manifest's scripts mapping (none when there is no mapping)
ScriptKeys == IF manifest.state = "parsed" THEN manifest.scripts ELSE {}

DesktopSuffix == << ".", "d", "e", "s", "k", "t", "o", "p" >>

\* C13: an Application request whose command ends in .desktop and names a file that
\* does not exist returns success=false, and no spawn is attempted.
C13_MissingDesktopFile ==
    (Entered /\ command_type = APP /\ endswith(command, DesktopSuffix)
       /\ strip(command) \notin fs.files)
      => /\ Returned
         /\ ~result[1].success
         /\ spawned = << >>

C13_Witness ==
    /\ Returned
    /\ command_type = APP
    /\ command = EntryDesktop
    /\ EntryDesktop \notin fs.files
    /\ ~result[1].success
    /\ spawned = << >>

\* an admitted Application request is spawned once, detached and unwaited, and the
\* result follows the spawn
DetachedLaunch ==
    /\ Returned
    /\ Len(spawned) = 1
    /\ spawned[1].api = "Popen"
    /\ spawned[1].start_new_session
    /\ ~spawned[1].wait
    /\ spawned[1].ok => (result[1].success /\ child.state = "running")
    /\ ~spawned[1].ok =>
         /\ ~result[1].success
         /\ result[1].error = Some(Reason("Failed to launch application", << "OSError" >>))

\* C14 as stated: every admitted Application request, in desktop or direct form, is
\* spawned detached; the call returns success=true once the spawn has succeeded,
\* without waiting for the process, and success=false with the spawn error when the
\* spawn fails.
C14_EveryAdmittedSpawned ==
    (Entered /\ command_type = APP /\ verdict.is_valid) => DetachedLaunch

\* C14 amended: an admitted Application request whose launch line tokenizes is
\* spawned detached; the call returns success=true once the spawn has succeeded,
\* without waiting for the process, and success=false with the spawn error when the
\* spawn fails.  When the launch line does not tokenize, nothing is spawned and the
\* call returns success=false with the launch-failure error.
C14_DetachedLaunch ==
    /\ (Entered /\ command_type = APP /\ verdict.is_valid /\ shlex_split(SpawnLine).ok)
         => DetachedLaunch
    /\ (Entered /\ command_type = APP /\ verdict.is_valid /\ ~shlex_split(SpawnLine).ok)
         => /\ Returned
            /\ spawned = << >>
            /\ ~result[1].success
            /\ result[1].error # None
            /\ result[1].error[1].msg = "Failed to launch application"

C14_Witness ==
    /\ Returned
    /\ command_type = APP
    /\ command = EntryDesktop
    /\ Len(spawned) = 1
    /\ spawned[1].argv = << << "g", "t", "k", "-", "l", "a", "u", "n", "c", "h" >>, EntryDesktop >>
    /\ result[1].success
    /\ child.state = "running"

\* C15: for PackageScript, validate_command rejects every command that is empty or
\* that, once trimmed, contains a whitespace character of any kind.
C15_WhitespaceRejected ==
    (pc = "validated" /\ command_type = NPM
       /\ (command = << >> \/ \E ws \in StrWhitespace : Contains(strip(command), ws)))
      => ~verdict.is_valid

\* the checks of validate_command, each taken by itself on the trimmed command
EmptyFails == command = << >> \/ strip(command) = << >>
CharFails == \E ch \in BlockedCharSet : Contains(strip(command), ch)
PatternFails == \E k \in 1..Len(BLOCKED_PATTERNS) : re_search(BLOCKED_PATTERNS[k], strip(command))
NameFails == split(strip(command)) # << >> /\ split(strip(command))[1] \in BlockedNameSet
GeneralReasons ==
    {"Empty command not allowed", "Blocked character", "Blocked pattern", "Blocked command"}
VerdictMsg == IF verdict.error = None THEN "" ELSE verdict.error[1].msg

\* C20: validate_command checks in the order empty, blocked character, blocked
\* pattern, blocked leading name, category rule and stops at the first check that
\* fails: the reason given is that of the earliest failing check.
C20_FirstFailingCheck ==
    pc = "validated" =>
        IF EmptyFails THEN VerdictMsg = "Empty command not allowed"
        ELSE IF CharFails THEN VerdictMsg = "Blocked character"
        ELSE IF PatternFails THEN VerdictMsg = "Blocked pattern"
        ELSE IF NameFails THEN VerdictMsg = "Blocked command"
        ELSE VerdictMsg \notin GeneralReasons

C20_Witness ==
    /\ pc = "validated"
    /\ command = << "r", "m", " ", "-", "r", "f", " ", ";" >>
    /\ command_type = NPM
    /\ CharFails /\ PatternFails /\ NameFails
    /\ verdict.error = Some(Reason("Blocked character", << ";" >>))

\* C17: when several valid Shell commands are executed at once on one launcher,
\* every call that waited for a child returns the exit code, stdout and stderr of
\* the child spawned for its own command, whatever the interleaving.
C17_OwnChildOnly ==
    \A i \in 1..MaxCalls :
        (calls[i].pc = "done" /\ calls[i].proc # 0) =>
            /\ procs[calls[i].proc].state = "exited"
            /\ procs[calls[i].proc].argv = shlex_split(calls[i].command).args
            /\ calls[i].result # None
            /\ calls[i].result[1].exit_code = procs[calls[i].proc].code
            /\ calls[i].result[1].stdout = procs[calls[i].proc].out
            /\ calls[i].result[1].stderr = procs[calls[i].proc].err

C17_Witness ==
    /\ calls[1].pc = "done"
    /\ calls[2].pc = "done"
    /\ calls[1].proc = 2
    /\ calls[2].proc = 1
    /\ calls[1].command # calls[2].command
    /\ calls[1].result[1].stdout = "a"
    /\ calls[2].result[1].stderr = "b"
    /\ calls[2].result[1].exit_code = Some(1)

\* JSON data MenuConfig.from_dict refuses: an empty title, or no icon
InvalidData(d) == d.title = Some("") \/ d.icon = None \/ d.icon = Some("")
\* a file load_config cannot take a configuration from
Unusable(file) ==
    file.kind \in {"absent", "text"} \/ (file.kind = "json" /\ InvalidData(file.data[1]))
\* the configuration valid JSON data stands for
ParsedConfig(d) ==
    MenuConfig(IF d.title = None THEN "Fredon Menu" ELSE d.title[1], d.icon[1])

C19_ReloadTakesFile ==
    /\ (cfg_ret.op = "reload_config" /\ ~Unusable(config_file)) =>
         /\ cfg_ret.ok
         /\ ~cfg_ret.raised
    /\ (cfg_ret.op = "get_config" /\ cfg_ret.prev = "reload_config" /\ ~Unusable(config_file)) =>
         cfg_ret.config = Some(ParsedConfig(config_file.data[1]))

C19_Witness ==
    /\ cfg_ret.op = "get_config"
    /\ cfg_ret.prev = "reload_config"
    /\ config_file = JsonFile(MenuData(Some("Modified Menu"), Some("new.png")))
    /\ backup_file = JsonFile(MenuData(Some("Test Menu"), Some("test.png")))
    /\ cfg_ret.config = Some(MenuConfig("Modified Menu", "new.png"))

\* the command got past the checks common to all categories
PassedCommon == ~EmptyFails /\ ~CharFails /\ ~PatternFails /\ ~NameFails
\* the first whitespace-separated token of the trimmed command
FirstToken == split(strip(command))[1]
AllowedPrefixSet ==
    { << "/", "u", "s", "r", "/", "b", "i", "n", "/" >>,
      << "/", "u", "s", "r", "/", "l", "o", "c", "a", "l", "/", "b", "i", "n", "/" >>,
      << "/", "b", "i", "n", "/" >>,
      << "/", "s", "n", "a", "p", "/", "b", "i", "n", "/" >>,
      << "n", "p", "m", " " >>,
      << "p", "y", "t", "h", "o", "n" >>,
      << "p", "y", "t", "h", "o", "n", "3" >>,
      << "n", "o", "d", "e" >>,
      << "f", "l", "a", "t", "p", "a", "k", " " >>,
      << "x", "d", "g", "-", "o", "p", "e", "n" >> }

\* C21: a Shell command that passed the common checks is admitted if and only if
\* its trimmed string starts with an allowed prefix or its first token has no '/';
\* every other command is rejected.
C21_ShellPrefixRule ==
    (pc = "validated" /\ command_type = SHELL /\ PassedCommon) =>
        (verdict.is_valid <=>
            \/ \E pre \in AllowedPrefixSet : startswith(strip(command), pre)
            \/ ~Contains(FirstToken, "/"))

C21_Witness ==
    /\ pc = "validated"
    /\ command_type = SHELL
    /\ command = << "/", "o", "p", "t", "/", "l", "s" >>
    /\ verdict = Reject("Shell command does not start with allowed prefix", << >>)

\* the three ways in which the Application rule admits
DesktopOk == endswith(strip(command), DesktopSuffix) /\ strip(command) \in fs.files
PathOk == Contains(FirstToken, "/") /\ FirstToken \in fs.files /\ FirstToken \in fs.exec
NameOk == ~Contains(FirstToken, "/") /\ FirstToken \in fs.onpath
\* the reasons of the Application rule name the missing file, path or name
AppReasonNamesIt ==
    \/ verdict.error = Some(Reason("Desktop file not found", strip(command)))
    \/ verdict.error = Some(Reason("Application not found", FirstToken))
    \/ verdict.error = Some(Reason("Application not executable", FirstToken))
    \/ verdict.error = Some(Reason("Command not found in PATH", FirstToken))

\* C22 as stated: an Application command that passed the common checks is admitted
\* exactly when it ends in .desktop and that file exists, or its first token has a
\* '/' and is an existing executable path, or its first token is a bare name that
\* resolves on PATH; otherwise it is rejected with a reason naming what is missing.
C22_AnyOfThree ==
    (pc = "validated" /\ command_type = APP /\ PassedCommon) =>
        /\ verdict.is_valid <=> (DesktopOk \/ PathOk \/ NameOk)
        /\ ~verdict.is_valid => AppReasonNamesIt

\* C22 amended: an Application command that passed the common checks and ends in
\* .desktop is admitted exactly when that file exists; one that does not end in
\* .desktop is admitted exactly when its first token has a '/' and is an existing
\* executable path, or is a bare name that resolves on PATH.  A rejection names the
\* missing file, the non-executable path or the unresolved name.
C22_AppRule ==
    (pc = "validated" /\ command_type = APP /\ PassedCommon) =>
        /\ verdict.is_valid <=>
              IF endswith(strip(command), DesktopSuffix) THEN DesktopOk
              ELSE PathOk \/ NameOk
        /\ ~verdict.is_valid => AppReasonNamesIt

C22_Witness ==
    /\ pc = "validated"
    /\ command_type = APP
    /\ command = BinLs
    /\ fs.exec = {BinLs}
    /\ verdict = Admit

\* shlex.split raised inside the call
TokenizationFailed == Returned /\ faults = << "ValueError" >>
\* the errors under which the launcher reports a spawn that failed
SpawnFailureMsgs == {"Execution failed", "Failed to launch application"}

\* C23: in every category, when tokenizing the command line fails the call makes no
\* spawn attempt and returns a syntax failure of its own kind, one that is not the
\* error reported for a failed spawn.
C23_DedicatedSyntaxFailure ==
    TokenizationFailed =>
        /\ spawned = << >>
        /\ ~result[1].success
        /\ result[1].error # None
        /\ result[1].error[1].msg \notin SpawnFailureMsgs

\* C24: for every admitted Interpreter request the process spawned is python3 with
\* exactly one argument, the script path the validator checked, also when the path
\* contains whitespace.
C24_InterpreterArgv ==
    (Entered /\ command_type = PYTHON /\ verdict.is_valid) =>
        /\ Len(spawned) = 1
        /\ spawned[1].argv = << << "p", "y", "t", "h", "o", "n", "3" >>, strip(command) >>

\* C25: a call of a waited category returns no later than when its child exits or
\* the timeout elapses, whichever comes first: it is never still blocked past the
\* timeout, and no time passes in it once the child has exited, whatever the
\* processes the child started are doing.
C25_ReturnsByExitOrTimeout ==
    [][/\ (pc = "waiting" /\ command_type \in Waited) => now - t_spawn <= max_execution_time
       /\ (pc = "waiting" /\ command_type \in Waited /\ child.state = "exited") => now' = now]_vars

\* what a request may be missing when it is validated
MissingManifest == command_type = NPM /\ ~NoDirectory /\ manifest.state = "absent"
MissingScript ==
    command_type = NPM /\ manifest.state = "parsed" /\ command \notin manifest.scripts
MissingDesktop ==
    command_type = APP /\ endswith(strip(command), DesktopSuffix) /\ strip(command) \notin fs.files
\* the program named by the first token is not there
ProgramMissing ==
    IF Contains(FirstToken, "/") THEN FirstToken \notin fs.files ELSE FirstToken \notin fs.onpath
MissingAppExecutable ==
    command_type = APP /\ ~endswith(strip(command), DesktopSuffix) /\ ProgramMissing
MissingShellExecutable == command_type = SHELL /\ ProgramMissing
NoSpawnFailure ==
    /\ Returned
    /\ ~result[1].success
    /\ spawned = << >>

C27_DesktopFormAgrees ==
    (Entered /\ command_type = APP /\ verdict.is_valid
       /\ endswith(strip(command), DesktopSuffix) /\ strip(command) \in fs.files)
      => \A i \in 1..Len(spawned) :
             /\ spawned[i].argv[1] = << "g", "t", "k", "-", "l", "a", "u", "n", "c", "h" >>
             /\ spawned[i].argv = << spawned[i].argv[1], basename(strip(command)) >>

\* C28: no command admitted in the Shell category leads to spawning a blocked
\* program: the base name of the spawned argv[0] is never one of the blocked
\* command names, also when the program is given by an allowed absolute path.
C28_NoBlockedProgramSpawned ==
    (Entered /\ command_type = SHELL /\ verdict.is_valid) =>
        \A i \in 1..Len(spawned) :
            spawned[i].argv # << >> => basename(spawned[i].argv[1]) \notin BlockedNameSet

\* C29: in MenuWindow, after any sequence of show_main_menu, show_category_menu,
\* page clicks, Left/Right key presses and configuration-change updates,
\* current_page lies in 0 .. max(total_pages - 1, 0) of the item list currently
\* displayed.
C29_PageInRange ==
    LET total_pages == (Len(MenuItems(window)) + window.items_per_page - 1)
                           \div window.items_per_page
        last_page == IF total_pages - 1 > 0 THEN total_pages - 1 ELSE 0
    IN  window.current_page \in 0..last_page

\* the total size of the icon data held in memory_cache
CachedBytes ==
    LET RECURSIVE Sum(_)
        Sum(keys) ==
            IF keys = {} THEN 0
            ELSE LET k == CHOOSE x \in keys : TRUE
                 IN  cache.memory_cache[k].data_len + Sum(keys \ {k})
    IN  Sum(DOMAIN cache.memory_cache)

\* C30: starting from an empty IconCacheManager, after any sequence of load_icon
\* and clear_cache calls the total size of the icon data held in memory_cache
\* does not exceed max_size_bytes.
C30_CacheWithinLimit ==
    CachedBytes <= cache.max_size_bytes

\* an eviction has taken entries out and left others in a cache with a limit
C30_Witness ==
    /\ cache.max_size_bytes > 0
    /\ cache.removed_count > 0
    /\ cache.memory_cache # << >>

====
